---- MODULE Spec2Model ----
(***************************************************************************)
(* The plan orchestrator of the lesson-video pipeline (main.py) with the   *)
(* parts of generator.py and uploader.py it drives.  The state is the      *)
(* content_plan.json file, the .wav files of the output directory, the     *)
(* local variables of main() and produce_lesson_videos(), and the control  *)
(* position of the run.  Every external call (language model, speech,      *)
(* imaging, encoding, upload) is a step that returns one of the values     *)
(* the callee can return or raises.                                        *)
(*                                                                         *)
(* Spec is the orchestrator; SpecInterrupt adds runs that are stopped.     *)
(* The functions the orchestrator calls as single steps have their own     *)
(* state machines over their arguments and locals: SpecUpload              *)
(* (upload_to_youtube with get_authenticated_service), SpecVideo           *)
(* (create_video), SpecWrap (the word wraps of generate_visuals) and       *)
(* SpecPlan (build_plan_from_videos of content_new.py).                    *)
(***************************************************************************)
EXTENDS Integers, Sequences, FiniteSets, TLC

VARIABLES
    disk,        \* content_plan.json: absent, unparsable text, or a JSON document
    wavs,        \* names of the *.wav files directly under OUTPUT_DIR
    pc,          \* control position of main()
    plan,        \* main()'s local `plan` (NoDoc while unbound)
    batch,       \* pending[:LESSONS_PER_RUN] as plan indices
    batchPos,    \* position of the for loop in batch
    step,        \* control position inside produce_lesson_videos
    nSlides,     \* len(lesson_content['long_form_slides'])
    audioPaths,  \* slide_audio_paths
    slidePaths,  \* slide_paths
    longVideoId, \* long_video_id
    escaped,     \* an exception left main()
    \* history of the current run, for the properties
    startKind,   \* what content_plan.json held when the run started
    genLog,      \* the generate_curriculum calls of the run
    plan0,       \* plan as it was loaded or last generated (lines 175, 184)
    log,         \* the production steps of the run, in order
    outcomes,    \* how each lesson attempt of the run ended
    exitKind,    \* the way the try block of main() was left
    \* uploader.py: one call of upload_to_youtube
    credentialsFile, \* token.json: NoToken or the credentials it stores
    clientSecrets,   \* client_secrets.json exists
    credentials,     \* get_authenticated_service's local `credentials`
    thumbnailPath,   \* the thumbnail_path argument and what it names
    upc,             \* control position of the call
    chunks,          \* next_chunk calls that returned no response yet
    videoId,         \* video_id
    upLog,           \* the external calls of the call, in order
    credentialsFile0, \* token.json when the call started
    \* generator.py: one call of create_video
    cvSlidePaths,    \* the slide_paths argument
    cvAudioPaths,    \* the audio_paths argument
    clips,           \* the list `clips`, one [slide, audio] per clip
    finalVideo,      \* final_video: the concatenated clips
    outputFile,      \* the file at output_path
    cvpc,            \* control position of the call
    cvError,         \* the exception the call raised
    \* generator.py: one word wrap of generate_visuals
    wText,           \* the title or content string
    wKind,           \* which wrap: of the title or of the body
    wWidth,          \* width of the canvas
    words,           \* words
    wordPos,         \* position of the for loop in words
    currentLine,     \* current_line
    lines,           \* title_lines / lines
    wpc,             \* control position of the wrap
    \* content_new.py: one call of build_plan_from_videos
    videos,          \* the videos argument
    targetCount,     \* the target_count argument
    builtPlan,       \* the returned plan
    bpc              \* control position of the call

(* main.py *)
orchestrator ==
    <<disk, wavs, pc, plan, batch, batchPos, step, nSlides, audioPaths,
      slidePaths, longVideoId, escaped, startKind, genLog, plan0, log,
      outcomes, exitKind>>

(* uploader.py *)
uploader ==
    <<credentialsFile, clientSecrets, credentials, thumbnailPath, upc, chunks,
      videoId, upLog, credentialsFile0>>

(* what main.py's own steps leave alone: the calls into the other modules  *)
(* are steps that return or raise                                          *)
(* generator.py, create_video *)
encoder ==
    <<cvSlidePaths, cvAudioPaths, clips, finalVideo, outputFile, cvpc, cvError>>

(* generator.py, the word wraps of generate_visuals *)
wrapper == <<wText, wKind, wWidth, words, wordPos, currentLine, lines, wpc>>

(* content_new.py, build_plan_from_videos *)
builder == <<videos, targetCount, builtPlan, bpc>>

besidesUploader == <<orchestrator, encoder, wrapper, builder>>

besidesEncoder == <<orchestrator, uploader, wrapper, builder>>

besidesWrapper == <<orchestrator, uploader, encoder, builder>>

besidesBuilder == <<orchestrator, uploader, encoder, wrapper>>

outside == <<uploader, encoder, wrapper, builder>>

vars == <<orchestrator, outside>>

-----------------------------------------------------------------------------
(* Bounds of the model *)

MaxLessons == 2

MaxGenLessons == 1

MaxSlides == 1

(* Program constants *)

LESSONS_PER_RUN == 1

CURRICULUM_SIZE == 20

SLEEP_SECONDS == 30

-----------------------------------------------------------------------------
(* Strings are sequences of characters; str.strip() and str.lower() *)

Min(a, b) == IF a < b THEN a ELSE b

IsSpace(c) == c = " "

LowerChar(c) ==
    CASE c = "A" -> "a"
      [] c = "B" -> "b"
      [] c = "L" -> "l"
      [] OTHER -> c

Lower(s) == [i \in 1..Len(s) |-> LowerChar(s[i])]

RECURSIVE LStrip(_)
LStrip(s) == IF s # <<>> /\ IsSpace(Head(s)) THEN LStrip(Tail(s)) ELSE s

RECURSIVE RStrip(_)
RStrip(s) ==
    IF s # <<>> /\ IsSpace(s[Len(s)]) THEN RStrip(SubSeq(s, 1, Len(s) - 1)) ELSE s

Strip(s) == RStrip(LStrip(s))

Norm(t) == Lower(Strip(t))

-----------------------------------------------------------------------------
(* JSON documents and the plan file *)

Null == "None"

Statuses == {"pending", "complete"}

UploadedId == "abc123"

EarlierId == "xyz789"

Lesson(c, p, t, s, y) ==
    [chapter |-> c, part |-> p, title |-> t, status |-> s, youtube_id |-> y]

Doc(shape, lessons) == [shape |-> shape, lessons |-> lessons]

NoDoc == Doc("unbound", <<>>)

NotMappingDoc == Doc("notmapping", <<>>)

NoLessonsDoc == Doc("nolessons", <<>>)

LessonsNotListDoc == Doc("lessonsnotlist", <<>>)

PlanDoc(ls) == Doc("plan", ls)

Absent == [kind |-> "absent", doc |-> NoDoc]

Garbage == [kind |-> "garbage", doc |-> NoDoc]

JsonDump(d) == [kind |-> "json", doc |-> d]

ParseError == Doc("parseerror", <<>>)

JsonLoad(f) == IF f.kind = "json" THEN f.doc ELSE ParseError

(* Titles of the bounded documents: two spellings of one title, and another *)
Titles == { <<"a">>, <<" ", "A">>, <<"b">> }

(* status / youtube_id pairs of the lessons of a plan file written by     *)
(* earlier runs                                                            *)
Fillings == { <<"pending", Null>>, <<"complete", EarlierId>> }

(* status / youtube_id pairs of the lessons of a response: the response is *)
(* not validated, so also complete without an id and pending with one      *)
GenFillings ==
    Fillings \cup { <<"complete", Null>>, <<"pending", EarlierId>> }

ChapterOf(i) == ((i - 1) \div 2) + 1

PartOf(i) == ((i - 1) % 2) + 1

PlansOfLen(n, fillings) ==
    { PlanDoc([i \in 1..n |-> Lesson(ChapterOf(i), PartOf(i), t[i], f[i][1], f[i][2])]) :
        t \in [1..n -> Titles], f \in [1..n -> fillings] }

DigitChar(d) == <<"0", "1", "2", "3", "4", "5", "6", "7", "8", "9">>[d + 1]

GenTitle(i) == <<"L", DigitChar(i \div 10), DigitChar(i % 10)>>

(* The response the prompt asks for: 20 lessons, pending, youtube_id null *)
ObedientCurriculum ==
    PlanDoc([i \in 1..CURRICULUM_SIZE |->
                Lesson(ChapterOf(i), PartOf(i), GenTitle(i), "pending", Null)])

(* JSON documents a plan file may hold when a run starts *)
JsonDocs ==
    {NotMappingDoc, NoLessonsDoc, LessonsNotListDoc}
        \cup UNION { PlansOfLen(n, Fillings) : n \in 0..MaxLessons }

(* generate_curriculum returns json.loads of the response: any JSON value, *)
(* the one the prompt asks for among them                                  *)
GenDocs ==
    {NotMappingDoc, NoLessonsDoc, LessonsNotListDoc, ObedientCurriculum}
        \cup UNION { PlansOfLen(n, GenFillings) : n \in 0..MaxGenLessons }

FileKind(f) ==
    IF f.kind # "json" THEN f.kind
    ELSE IF f.doc.shape # "plan" THEN f.doc.shape
    ELSE IF f.doc.lessons = <<>> THEN "emptylessons"
    ELSE "plan"

-----------------------------------------------------------------------------
(* main.py: the pure parts *)

IsValidPlanLax(d) == d.shape = "plan"

(* line 38: the plan file is kept iff it is a mapping whose "lessons" is a *)
(* non-empty list                                                          *)
IsValidPlan(d) == d.shape = "plan" /\ d.lessons # <<>>

(* plan['lessons'] can be enumerated (lines 176, 185) *)
HasLessons(d) == d.shape = "plan"

RECURSIVE PendingFrom(_, _)
PendingFrom(ls, i) ==
    IF i > Len(ls) THEN <<>>
    ELSE IF ls[i].status = "pending" THEN <<i>> \o PendingFrom(ls, i + 1)
    ELSE PendingFrom(ls, i + 1)

Pending(d) == PendingFrom(d.lessons, 1)

WholePending(p) == p

BatchOf(p) == SubSeq(p, 1, Min(LESSONS_PER_RUN, Len(p)))

RECURSIVE FirstMatch(_, _, _)
FirstMatch(ls, t, i) ==
    IF i > Len(ls) THEN 0
    ELSE IF Norm(ls[i].title) = Norm(t) THEN i
    ELSE FirstMatch(ls, t, i + 1)

MarkEveryMatch(d, t, v) ==
    PlanDoc([i \in 1..Len(d.lessons) |->
                IF Norm(d.lessons[i].title) = Norm(t)
                THEN [d.lessons[i] EXCEPT !.status = "complete", !.youtube_id = v]
                ELSE d.lessons[i]])

MarkStatusOnly(d, t, v) ==
    LET k == FirstMatch(d.lessons, t, 1) IN
    IF k = 0 THEN d
    ELSE PlanDoc([d.lessons EXCEPT ![k].status = "complete"])

(* lines 194-201: the first lesson whose title matches is marked *)
MarkComplete(d, t, v) ==
    LET k == FirstMatch(d.lessons, t, 1) IN
    IF k = 0 THEN d
    ELSE PlanDoc([d.lessons EXCEPT ![k].status = "complete", ![k].youtube_id = v])

UpdateContentPlan(p) == JsonDump(p)

KeepOldFile(f, d) == f

(* get_content_plan, lines 30-31 and 44-45: the new plan replaces the file *)
SaveNewPlan(f, d) == JsonDump(d)

RegeneratedNotSaved(f, d) == f

(* line 183: update_content_plan(new_plan) *)
PersistRegenerated(f, d) == UpdateContentPlan(d)

FinallySkipped(d, p) == d

(* lines 207-208: the finally clause of the for loop body *)
FinallyPersist(d, p) == UpdateContentPlan(p)

LessonHandlerReraises == "reraise"

(* lines 204-206: except Exception around one lesson; the loop goes on *)
LessonHandler == "continue"

Propagate == [pc |-> "done", escaped |-> TRUE]

(* lines 211-213: the handler of main()'s try block; control goes on to 215 *)
OuterExcept == [pc |-> "cleanup", escaped |-> FALSE]

(* line 188: return from inside the try block *)
EarlyReturn == "done"

(* if video_id: / if long_video_id: *)
Truthy(v) == v # Null /\ v # ""

-----------------------------------------------------------------------------
(* produce_lesson_videos: the order of its calls *)

AudioAfterSlides(s) ==
    CASE s = "content" -> "slides"
      [] s = "slides" -> "audio"
      [] s = "audio" -> "encode_long"
      [] s = "encode_long" -> "thumb_long"
      [] s = "thumb_long" -> "audio_short"
      [] s = "audio_short" -> "slide_short"
      [] s = "slide_short" -> "encode_short"
      [] s = "encode_short" -> "thumb_short"
      [] s = "thumb_short" -> "upload_long"
      [] s = "upload_long" -> "sleep"
      [] s = "sleep" -> "upload_short"
      [] OTHER -> "none"

(* lines 59-162, top to bottom *)
StepAfter(s) ==
    CASE s = "content" -> "audio"
      [] s = "audio" -> "slides"
      [] s = "slides" -> "encode_long"
      [] s = "encode_long" -> "thumb_long"
      [] s = "thumb_long" -> "audio_short"
      [] s = "audio_short" -> "slide_short"
      [] s = "slide_short" -> "encode_short"
      [] s = "encode_short" -> "thumb_short"
      [] s = "thumb_short" -> "upload_long"
      [] s = "upload_long" -> "sleep"
      [] s = "sleep" -> "upload_short"
      [] OTHER -> "none"

LengthsUnchecked(slides, audios) == slides = <<>> \/ audios = <<>>

(* generator.py line 331: create_video's input check *)
CreateVideoRejects(slides, audios) ==
    slides = <<>> \/ audios = <<>> \/ Len(slides) # Len(audios)

(* generator.py lines 332 and 374-376: what create_video raises is the     *)
(* invalid-input error when the check of line 331 fails, and the error of  *)
(* the clip, concatenation or encoding step otherwise                      *)
InvalidInput == 1

EncodingFailure == 0

CreateVideoError(slides, audios) ==
    IF CreateVideoRejects(slides, audios) THEN InvalidInput ELSE EncodingFailure

ScriptsWithoutOutro(n) == n + 1

(* lines 67-71: slide_scripts is the intro, one script per long-form slide *)
(* and the outro                                                           *)
ScriptCount(n) == n + 2

(* line 65: all_slides is the intro slide, the long-form slides, the outro *)
SlideCount(n) == n + 2

ShortSlide == <<"short_slide", 0>>

(* line 124: create_video([short_slide_path], [short_audio_path], ...)     *)
ShortSlidePaths == <<ShortSlide>>

(* upload_to_youtube returns response.get('id') *)
UploadReturns == {UploadedId, Null, ""}

AudioSlideWav(i) == <<"audio_slide", i>>

ShortAudioWav == <<"short_audio", 0>>

LeftoverWav == <<"leftover", 0>>

ShortAudioPaths == <<ShortAudioWav>>

Ev(op, idx, arg) == [op |-> op, idx |-> idx, arg |-> arg]

Outcome(idx, result, vid, at) == [idx |-> idx, result |-> result, vid |-> vid, at |-> at]

GenCall(site, ok) == [site |-> site, ok |-> ok]

-----------------------------------------------------------------------------
(* uploader.py: credentials, and the pure parts of its two functions *)

(* Bound: next_chunk calls of one upload that return no response yet *)
MaxChunks == 2

(* A google.oauth2 Credentials object as the code looks at it: .valid,     *)
(* .expired, .refresh_token (as a truth value); id tells where it is from  *)
Token(id, v, e, r) == [id |-> id, valid |-> v, expired |-> e, refresh_token |-> r]

(* line 22: credentials = None; also token.json when it does not exist *)
NoCredentials == Token("none", FALSE, FALSE, FALSE)

(* what token.json may hold when a call starts: a token is valid only      *)
(* when it is not expired                                                  *)
StoredTokens ==
    { Token("stored", v, e, r) : v \in BOOLEAN, e \in BOOLEAN, r \in BOOLEAN }
        \ { Token("stored", TRUE, TRUE, r) : r \in BOOLEAN }

(* line 36: credentials.refresh(Request()) that returns *)
Refreshed(c) == Token("refreshed", TRUE, FALSE, c.refresh_token)

(* line 47: what flow.run_local_server returns *)
Granted == { Token("granted", TRUE, FALSE, r) : r \in BOOLEAN }

(* with the access token's lifetime over *)
Expired(c) == [c EXCEPT !.valid = FALSE, !.expired = TRUE]

(* line 31: if not credentials or not credentials.valid *)
NeedsLogin(c) == c = NoCredentials \/ ~c.valid

NeverRefreshes(c) == FALSE

(* line 34: if credentials and credentials.expired and credentials.refresh_token *)
CanRefresh(c) == c # NoCredentials /\ c.expired /\ c.refresh_token

(* lines 31-38: where get_authenticated_service goes with credentials c *)
AuthBranch(c) ==
    IF ~NeedsLogin(c) THEN "build"
    ELSE IF CanRefresh(c) THEN "refresh"
    ELSE "login"

(* thumbnail_path: None or empty, a path of no file, a path of a file *)
ThumbnailPaths == {"none", "missing", "present"}

(* line 95: if thumbnail_path and os.path.exists(thumbnail_path) *)
AttachesThumbnail(t) == t = "present"

ThumbnailHandlerReraises == "reraise"

(* lines 104-105: except Exception around the thumbnail upload, printed *)
ThumbnailHandler == "log"

UploaderIdle ==
    /\ credentialsFile = NoCredentials
    /\ clientSecrets = FALSE
    /\ credentials = NoCredentials
    /\ thumbnailPath = "none"
    /\ upc = "idle"
    /\ chunks = 0
    /\ videoId = Null
    /\ upLog = <<>>
    /\ credentialsFile0 = NoCredentials

-----------------------------------------------------------------------------
(* generator.py, create_video: its arguments and pure parts *)

(* Bound: the longest slide_paths and audio_paths lists *)
MaxClips == 3

SlideFiles == {"a.png", "b.png"}

AudioFiles == {"x.wav", "y.wav"}

ListsOver(S) == UNION { [1..n -> S] : n \in 0..MaxClips }

(* lines 334-335: zip stops with the shorter list *)
ZipLen(a, b) == Min(Len(a), Len(b))

(* lines 336-345: the clip of one (slide, audio) pair *)
Clip(slide, audio) == [slide |-> slide, audio |-> audio]

EncoderIdle ==
    /\ cvSlidePaths = <<>>
    /\ cvAudioPaths = <<>>
    /\ clips = <<>>
    /\ finalVideo = <<>>
    /\ outputFile = "none"
    /\ cvpc = "idle"
    /\ cvError = "none"

-----------------------------------------------------------------------------
(* generator.py, generate_visuals: the word wrap of the title and the body *)

(* Bound: the longest title or content string *)
MaxChars == 5

(* line 223: the canvas of a long and of a short video *)
LongWidth == 1920

ShortWidth == 1080

(* lines 259 and 294: the part of the width a line may take, in percent *)
TitleFraction == 90

BodyFraction == 85

(* characters of the bounded strings: a narrow and a wide letter, a blank *)
Alphabet == {"a", "W", " "}

StringsUpTo(n) == UNION { [1..k -> Alphabet] : k \in 0..n }

(* the horizontal advance of a character in the font, in pixels: wide     *)
(* enough for a string of a few characters to fill a line                  *)
Advance(c) ==
    CASE c = "W" -> 900
      [] c = " " -> 200
      [] OTHER -> 300

RECURSIVE AdvanceSum(_)
AdvanceSum(s) == IF s = <<>> THEN 0 ELSE Advance(Head(s)) + AdvanceSum(Tail(s))

(* the x offset at which the first glyph of a text starts *)
LeftBearing == 10

(* draw.textbbox((0, 0), text, font): left and right edge *)
TextBBox(s) ==
    IF s = <<>> THEN [left |-> 0, right |-> 0]
    ELSE [left |-> LeftBearing, right |-> LeftBearing + AdvanceSum(s)]

RECURSIVE WordsFrom(_, _)
WordsFrom(s, cur) ==
    IF s = <<>> THEN (IF cur = <<>> THEN <<>> ELSE <<cur>>)
    ELSE IF IsSpace(Head(s))
         THEN (IF cur = <<>> THEN <<>> ELSE <<cur>>) \o WordsFrom(Tail(s), <<>>)
         ELSE WordsFrom(Tail(s), Append(cur, Head(s)))

(* str.split(): the maximal runs of non-blank characters *)
Split(s) == WordsFrom(s, <<>>)

(* lines 258 and 293: f"{current_line} {word}".strip() *)
TestLine(cur, word) == Strip(cur \o <<" ">> \o word)

AlwaysFits(kind, width, t) == TRUE

(* lines 259-260 and 294: the title is measured from its left edge, the    *)
(* body by its right edge; width * 0.9 and width * 0.85 in hundredths      *)
Fits(kind, width, t) ==
    IF kind = "title"
    THEN (TextBBox(t).right - TextBBox(t).left) * 100 < width * TitleFraction
    ELSE TextBBox(t).right * 100 < width * BodyFraction

WrapperIdle ==
    /\ wText = <<>>
    /\ wKind = "title"
    /\ wWidth = LongWidth
    /\ words = <<>>
    /\ wordPos = 0
    /\ currentLine = <<>>
    /\ lines = <<>>
    /\ wpc = "idle"

-----------------------------------------------------------------------------
(* content_new.py, build_plan_from_videos *)

(* Bounds: the longest videos list and the largest target_count *)
MaxVideos == 2

MaxTarget == 3

(* v.get("title") is None: the key is absent or null *)
NoTitle == <<Null>>

(* titles of the videos of a search result, the empty string among them *)
VideoTitles == {NoTitle, <<>>, <<"a">>, <<"b">>}

Video(t) == [title |-> t]

VideoLists == UNION { [1..n -> { Video(t) : t \in VideoTitles }] : n \in 0..MaxVideos }

(* the target_count argument: None (the default) or an integer *)
Target(none, n) == [none |-> none, n |-> n]

TargetCounts == {Target(TRUE, 0)} \cup { Target(FALSE, n) : n \in (-1)..MaxTarget }

CountOfVideos(tc, vs) == Len(vs)

(* line 103: actual_count = target_count if target_count else len(videos) *)
ActualCount(tc, vs) == IF ~tc.none /\ tc.n # 0 THEN tc.n ELSE Len(vs)

Decimal(i) ==
    IF i < 10 THEN <<DigitChar(i)>> ELSE <<DigitChar(i \div 10), DigitChar(i % 10)>>

(* lines 111 and 113: f"Lesson {idx+1}", i being idx + 1 *)
GenericTitle(i) == <<"L", "e", "s", "s", "o", "n", " ">> \o Decimal(i)

(* lines 109-113: the title of the lesson at position i = idx + 1 *)
LessonTitle(vs, i) ==
    IF i <= Len(vs)
    THEN IF vs[i].title # NoTitle /\ vs[i].title # <<>>
         THEN vs[i].title
         ELSE GenericTitle(i)
    ELSE GenericTitle(i)

(* lines 102-124: range(actual_count) is empty for a count below one *)
BuildPlanFromVideos(vs, tc) ==
    PlanDoc([i \in 1..ActualCount(tc, vs) |->
                Lesson(ChapterOf(i), PartOf(i), LessonTitle(vs, i), "pending", Null)])

BuilderIdle ==
    /\ videos = <<>>
    /\ targetCount = Target(TRUE, 0)
    /\ builtPlan = NoDoc
    /\ bpc = "idle"

-----------------------------------------------------------------------------
(* The state machine *)

hist == <<startKind, genLog, plan0, log, outcomes, exitKind>>

prod == <<step, nSlides, audioPaths, slidePaths, longVideoId>>

loop == <<batch, batchPos>>

Init ==
    /\ disk \in {Absent, Garbage} \cup { JsonDump(d) : d \in JsonDocs }
    /\ wavs \in { {}, {LeftoverWav} }
    /\ pc = "idle"
    /\ plan = NoDoc
    /\ batch = <<>>
    /\ batchPos = 0
    /\ step = "none"
    /\ nSlides = 0
    /\ audioPaths = <<>>
    /\ slidePaths = <<>>
    /\ longVideoId = Null
    /\ escaped = FALSE
    /\ startKind = "none"
    /\ genLog = <<>>
    /\ plan0 = NoDoc
    /\ log = <<>>
    /\ outcomes = <<>>
    /\ exitKind = "none"
    /\ UploaderIdle
    /\ EncoderIdle
    /\ WrapperIdle
    /\ BuilderIdle

(* main() is entered: lines 168-174 *)
StartRun ==
    /\ UNCHANGED outside
    /\ pc \in {"idle", "done"}
    /\ pc' = "load"
    /\ plan' = NoDoc
    /\ batch' = <<>>
    /\ batchPos' = 0
    /\ step' = "none"
    /\ nSlides' = 0
    /\ audioPaths' = <<>>
    /\ slidePaths' = <<>>
    /\ longVideoId' = Null
    /\ escaped' = FALSE
    /\ startKind' = FileKind(disk)
    /\ genLog' = <<>>
    /\ plan0' = NoDoc
    /\ log' = <<>>
    /\ outcomes' = <<>>
    /\ exitKind' = "none"
    /\ UNCHANGED <<disk, wavs>>

(* an exception reaches the handler of main()'s try block *)
Critical ==
    /\ pc' = OuterExcept.pc
    /\ escaped' = OuterExcept.escaped
    /\ exitKind' = "critical"

(* lines 176 / 185 with plan p, and what follows; early says which of the  *)
(* two: after line 185 an empty pending list returns                       *)
Select(p, early) ==
    IF ~HasLessons(p)
    THEN /\ Critical
         /\ UNCHANGED <<loop, prod>>
    ELSE IF Pending(p) = <<>>
    THEN /\ pc' = IF early THEN EarlyReturn ELSE "regen"
         /\ exitKind' = IF early THEN "early_return" ELSE exitKind
         /\ UNCHANGED <<loop, prod, escaped>>
    ELSE /\ pc' = "produce"
         /\ batch' = BatchOf(Pending(p))
         /\ batchPos' = 1
         /\ step' = "content"
         /\ UNCHANGED <<nSlides, audioPaths, slidePaths, longVideoId,
                        escaped, exitKind>>

(* get_content_plan, lines 34-40: the file holds a usable plan *)
LoadPlan ==
    /\ UNCHANGED outside
    /\ pc = "load"
    /\ disk.kind # "absent"
    /\ IsValidPlan(JsonLoad(disk))
    /\ plan' = JsonLoad(disk)
    /\ plan0' = JsonLoad(disk)
    /\ Select(JsonLoad(disk), FALSE)
    /\ UNCHANGED <<disk, wavs, startKind, genLog, log, outcomes>>

GenSite == IF disk.kind = "absent" THEN "absent" ELSE "invalid"

(* get_content_plan, lines 27-33 and 41-46: generate_curriculum returns d *)
CreatePlan ==
    /\ UNCHANGED outside
    /\ pc = "load"
    /\ disk.kind = "absent" \/ ~IsValidPlan(JsonLoad(disk))
    /\ \E d \in GenDocs :
        /\ genLog' = Append(genLog, GenCall(GenSite, TRUE))
        /\ disk' = SaveNewPlan(disk, d)
        /\ plan' = d
        /\ plan0' = d
        /\ Select(d, FALSE)
    /\ UNCHANGED <<wavs, startKind, log, outcomes>>

(* get_content_plan, lines 29 and 43: generate_curriculum raises *)
CreatePlanFails ==
    /\ UNCHANGED outside
    /\ pc = "load"
    /\ disk.kind = "absent" \/ ~IsValidPlan(JsonLoad(disk))
    /\ genLog' = Append(genLog, GenCall(GenSite, FALSE))
    /\ Critical
    /\ UNCHANGED <<disk, wavs, plan, loop, prod, startKind, plan0,
                   log, outcomes>>

(* lines 178-188: no lesson is pending, generate_curriculum returns d *)
Regenerate ==
    /\ UNCHANGED outside
    /\ pc = "regen"
    /\ \E d \in GenDocs :
        /\ genLog' = Append(genLog, GenCall("exhausted", TRUE))
        /\ disk' = PersistRegenerated(disk, d)
        /\ plan' = d
        /\ plan0' = d
        /\ Select(d, TRUE)
    /\ UNCHANGED <<wavs, startKind, log, outcomes>>

(* line 182: generate_curriculum raises *)
RegenerateFails ==
    /\ UNCHANGED outside
    /\ pc = "regen"
    /\ genLog' = Append(genLog, GenCall("exhausted", FALSE))
    /\ Critical
    /\ UNCHANGED <<disk, wavs, plan, loop, prod, startKind, plan0,
                   log, outcomes>>

-----------------------------------------------------------------------------
(* The for loop of main(), lines 190-210, and produce_lesson_videos *)

CurIdx == batch[batchPos]

CurLesson == plan.lessons[CurIdx]

(* One lesson attempt ends with plan p: the finally clause saves the plan  *)
(* and the for loop goes to its next lesson or ends                        *)
EndLesson(p, o) ==
    /\ plan' = p
    /\ disk' = FinallyPersist(disk, p)
    /\ outcomes' = Append(outcomes, o)
    /\ nSlides' = 0
    /\ audioPaths' = <<>>
    /\ slidePaths' = <<>>
    /\ longVideoId' = Null
    /\ IF batchPos < Len(batch)
       THEN /\ batchPos' = batchPos + 1
            /\ step' = "content"
            /\ pc' = "produce"
            /\ exitKind' = exitKind
       ELSE /\ batchPos' = batchPos
            /\ step' = "none"
            /\ pc' = "cleanup"
            /\ exitKind' = "loop_end"
    /\ UNCHANGED <<batch, escaped, startKind, genLog, plan0>>

(* lines 204-210: produce_lesson_videos raised at step s *)
LessonRaises(s, a) ==
    /\ log' = Append(log, Ev(s, CurIdx, a))
    /\ IF LessonHandler = "continue"
       THEN EndLesson(plan, Outcome(CurIdx, "raised", Null, s))
       ELSE /\ disk' = FinallyPersist(disk, plan)
            /\ outcomes' = Append(outcomes, Outcome(CurIdx, "raised", Null, s))
            /\ Critical
            /\ UNCHANGED <<plan, loop, prod, startKind, genLog, plan0>>

(* a call of produce_lesson_videos returns normally and the next follows *)
Proceed(s) ==
    /\ log' = Append(log, Ev(s, CurIdx, 0))
    /\ step' = StepAfter(s)
    /\ UNCHANGED <<disk, pc, plan, loop, escaped, startKind, genLog,
                   plan0, outcomes, exitKind>>

(* line 59: generate_lesson_content *)
GenerateLessonContent ==
    /\ UNCHANGED outside
    /\ pc = "produce" /\ step = "content"
    /\ \/ \E n \in 0..MaxSlides :
            /\ nSlides' = n
            /\ Proceed("content")
            /\ UNCHANGED <<wavs, audioPaths, slidePaths, longVideoId>>
       \/ LessonRaises("content", 0) /\ UNCHANGED wavs

(* lines 73-77: one text_to_speech call of the slide_scripts loop *)
TextToSpeechSlide ==
    /\ UNCHANGED outside
    /\ pc = "produce" /\ step = "audio"
    /\ LET i == Len(audioPaths) + 1 IN
       \/ /\ wavs' = wavs \cup {AudioSlideWav(i)}
          /\ audioPaths' = Append(audioPaths, AudioSlideWav(i))
          /\ log' = Append(log, Ev("audio", CurIdx, i))
          /\ step' = IF i = ScriptCount(nSlides) THEN StepAfter("audio") ELSE "audio"
          /\ UNCHANGED <<disk, pc, plan, loop, nSlides, slidePaths, longVideoId,
                         escaped, startKind, genLog, plan0, outcomes,
                         exitKind>>
       \/ /\ wavs' \in {wavs, wavs \cup {AudioSlideWav(i)}}
          /\ LessonRaises("audio", i)

(* lines 80-90: one generate_visuals call of the all_slides loop *)
GenerateVisualsSlide ==
    /\ UNCHANGED outside
    /\ pc = "produce" /\ step = "slides"
    /\ LET i == Len(slidePaths) + 1 IN
       \/ /\ slidePaths' = Append(slidePaths, i)
          /\ log' = Append(log, Ev("slides", CurIdx, i))
          /\ step' = IF i = SlideCount(nSlides) THEN StepAfter("slides") ELSE "slides"
          /\ UNCHANGED <<disk, wavs, pc, plan, loop, nSlides, audioPaths,
                         longVideoId, escaped, startKind, genLog,
                         plan0, outcomes, exitKind>>
       \/ LessonRaises("slides", i) /\ UNCHANGED wavs

(* line 94: create_video for the long video *)
CreateVideoLong ==
    /\ UNCHANGED outside
    /\ pc = "produce" /\ step = "encode_long"
    /\ \/ /\ ~CreateVideoRejects(slidePaths, audioPaths)
          /\ Proceed("encode_long")
          /\ UNCHANGED <<wavs, nSlides, audioPaths, slidePaths, longVideoId>>
       \/ /\ LessonRaises("encode_long", CreateVideoError(slidePaths, audioPaths))
          /\ UNCHANGED wavs

(* lines 96-100, 114-120, 126-130: thumbnails and the slide of the short *)
PlainSteps == {"thumb_long", "slide_short", "thumb_short"}

PlainStep ==
    /\ UNCHANGED outside
    /\ pc = "produce" /\ step \in PlainSteps
    /\ \/ /\ Proceed(step)
          /\ UNCHANGED <<wavs, nSlides, audioPaths, slidePaths, longVideoId>>
       \/ LessonRaises(step, 0) /\ UNCHANGED wavs

(* line 124: create_video for the short *)
CreateVideoShort ==
    /\ UNCHANGED outside
    /\ pc = "produce" /\ step = "encode_short"
    /\ \/ /\ ~CreateVideoRejects(ShortSlidePaths, ShortAudioPaths)
          /\ Proceed("encode_short")
          /\ UNCHANGED <<wavs, nSlides, audioPaths, slidePaths, longVideoId>>
       \/ /\ LessonRaises("encode_short",
                          CreateVideoError(ShortSlidePaths, ShortAudioPaths))
          /\ UNCHANGED wavs

(* line 107: text_to_speech for the short *)
TextToSpeechShort ==
    /\ UNCHANGED outside
    /\ pc = "produce" /\ step = "audio_short"
    /\ \/ /\ wavs' = wavs \cup {ShortAudioWav}
          /\ Proceed("audio_short")
          /\ UNCHANGED <<nSlides, audioPaths, slidePaths, longVideoId>>
       \/ /\ wavs' \in {wavs, wavs \cup {ShortAudioWav}}
          /\ LessonRaises("audio_short", 0)

(* lines 137-145 and 164: upload of the long video; without an id the      *)
(* function returns None and main() leaves the lesson as it is             *)
UploadLong ==
    /\ UNCHANGED outside
    /\ pc = "produce" /\ step = "upload_long"
    /\ \/ \E v \in UploadReturns :
            IF Truthy(v)
            THEN /\ longVideoId' = v
                 /\ Proceed("upload_long")
                 /\ UNCHANGED <<wavs, nSlides, audioPaths, slidePaths>>
            ELSE /\ log' = Append(log, Ev("upload_long", CurIdx, 0))
                 /\ EndLesson(plan, Outcome(CurIdx, "noid", v, "none"))
                 /\ UNCHANGED wavs
       \/ LessonRaises("upload_long", 0) /\ UNCHANGED wavs

(* lines 146-147: time.sleep(30) *)
Sleep ==
    /\ UNCHANGED outside
    /\ pc = "produce" /\ step = "sleep"
    /\ log' = Append(log, Ev("sleep", CurIdx, SLEEP_SECONDS))
    /\ step' = StepAfter("sleep")
    /\ UNCHANGED <<disk, wavs, pc, plan, loop, nSlides, audioPaths, slidePaths,
                   longVideoId, escaped, startKind, genLog, plan0,
                   outcomes, exitKind>>

(* lines 156-163 and 193-201: upload of the short; the function returns    *)
(* long_video_id and main() marks the lesson                               *)
UploadShort ==
    /\ UNCHANGED outside
    /\ pc = "produce" /\ step = "upload_short"
    /\ \/ /\ log' = Append(log, Ev("upload_short", CurIdx, 0))
          /\ EndLesson(MarkComplete(plan, CurLesson.title, longVideoId),
                       Outcome(CurIdx, "returned", longVideoId, "none"))
          /\ UNCHANGED wavs
       \/ LessonRaises("upload_short", 0) /\ UNCHANGED wavs

(* lines 215-220: every *.wav under OUTPUT_DIR is unlinked *)
RemoveWavs(w) == {}

Cleanup ==
    /\ UNCHANGED outside
    /\ pc = "cleanup"
    /\ wavs' = RemoveWavs(wavs)
    /\ pc' = "done"
    /\ UNCHANGED <<disk, plan, loop, prod, escaped, hist>>

Next ==
    \/ StartRun
    \/ LoadPlan
    \/ CreatePlan
    \/ CreatePlanFails
    \/ Regenerate
    \/ RegenerateFails
    \/ GenerateLessonContent
    \/ TextToSpeechSlide
    \/ GenerateVisualsSlide
    \/ CreateVideoLong
    \/ PlainStep
    \/ TextToSpeechShort
    \/ CreateVideoShort
    \/ UploadLong
    \/ Sleep
    \/ UploadShort
    \/ Cleanup

Spec == Init /\ [][Next]_vars

-----------------------------------------------------------------------------
(* Runs that are interrupted (the process is killed, the machine stops) *)

(* lines 30, 44 and 50: open(CONTENT_PLAN_FILE, 'w') empties the file      *)
(* before json.dump writes the new text piece by piece; stopped in         *)
(* between, the file holds no text or the beginning of one, which          *)
(* json.load rejects                                                       *)
TruncatedFile(f) == Garbage

(* the run stops between two steps; the file is as the last step left it *)
Interrupt ==
    /\ UNCHANGED outside
    /\ pc \in {"load", "regen", "produce", "cleanup"}
    /\ pc' = "done"
    /\ exitKind' = "killed"
    /\ UNCHANGED <<disk, wavs, plan, loop, prod, escaped, startKind, genLog,
                   plan0, log, outcomes>>

(* the run stops inside one of the three writes of the plan file: that of  *)
(* get_content_plan after generate_curriculum returned (lines 30-31,       *)
(* 44-45), that of line 183, or that of the finally clause (line 208)      *)
(* after the current step of the lesson raised                             *)
InterruptedWrite ==
    /\ UNCHANGED outside
    /\ \/ /\ pc = "load"
          /\ disk.kind = "absent" \/ ~IsValidPlan(JsonLoad(disk))
          /\ genLog' = Append(genLog, GenCall(GenSite, TRUE))
          /\ UNCHANGED <<log, outcomes>>
       \/ /\ pc = "regen"
          /\ genLog' = Append(genLog, GenCall("exhausted", TRUE))
          /\ UNCHANGED <<log, outcomes>>
       \/ /\ pc = "produce"
          /\ log' = Append(log, Ev(step, CurIdx, 0))
          /\ outcomes' = Append(outcomes, Outcome(CurIdx, "raised", Null, step))
          /\ UNCHANGED genLog
    /\ disk' = TruncatedFile(disk)
    /\ pc' = "done"
    /\ exitKind' = "killed"
    /\ UNCHANGED <<wavs, plan, loop, prod, escaped, startKind, plan0>>

NextInterrupt ==
    \/ Next
    \/ Interrupt
    \/ InterruptedWrite

SpecInterrupt == Init /\ [][NextInterrupt]_vars

-----------------------------------------------------------------------------
(* upload_to_youtube and get_authenticated_service, step by step *)

OrchestratorIdle ==
    /\ disk = Absent
    /\ wavs = {}
    /\ pc = "idle"
    /\ plan = NoDoc
    /\ batch = <<>>
    /\ batchPos = 0
    /\ step = "none"
    /\ nSlides = 0
    /\ audioPaths = <<>>
    /\ slidePaths = <<>>
    /\ longVideoId = Null
    /\ escaped = FALSE
    /\ startKind = "none"
    /\ genLog = <<>>
    /\ plan0 = NoDoc
    /\ log = <<>>
    /\ outcomes = <<>>
    /\ exitKind = "none"

InitUpload ==
    /\ OrchestratorIdle
    /\ EncoderIdle
    /\ WrapperIdle
    /\ BuilderIdle
    /\ credentialsFile \in {NoCredentials} \cup StoredTokens
    /\ clientSecrets \in BOOLEAN
    /\ credentials = NoCredentials
    /\ thumbnailPath = "none"
    /\ upc = "idle"
    /\ chunks = 0
    /\ videoId = Null
    /\ upLog = <<>>
    /\ credentialsFile0 = credentialsFile

(* the call goes on at position p after the external call e *)
UpStep(e, p) ==
    /\ upLog' = Append(upLog, e)
    /\ upc' = p

(* lines 111-113: the exception of e is printed and raised to the caller *)
UpRaises(e) ==
    /\ UpStep(e, "raised")
    /\ UNCHANGED <<credentialsFile, clientSecrets, credentials, thumbnailPath,
                   chunks, videoId, credentialsFile0>>

(* lines 58-62 and 20-38: upload_to_youtube is called, enters              *)
(* get_authenticated_service, which loads token.json when it exists and    *)
(* looks at the credentials                                                *)
EnterUpload ==
    /\ upc \in {"idle", "returned", "raised"}
    /\ thumbnailPath' \in ThumbnailPaths
    /\ credentials' = credentialsFile
    /\ upc' = AuthBranch(credentialsFile)
    /\ chunks' = 0
    /\ videoId' = Null
    /\ upLog' = <<>>
    /\ credentialsFile0' = credentialsFile
    /\ UNCHANGED <<besidesUploader, credentialsFile, clientSecrets>>

(* line 36: credentials.refresh(Request()) *)
RefreshToken ==
    /\ upc = "refresh"
    /\ \/ /\ credentials' = Refreshed(credentials)
          /\ UpStep("refresh", "write")
          /\ UNCHANGED <<credentialsFile, clientSecrets, thumbnailPath, chunks,
                         videoId, credentialsFile0>>
       \/ UpRaises("refresh_failed")
    /\ UNCHANGED besidesUploader

(* lines 40-47: the client-secrets check and the interactive flow *)
InteractiveLogin ==
    /\ upc = "login"
    /\ IF ~clientSecrets
       THEN UpRaises("no_client_secrets")
       ELSE \/ /\ credentials' \in Granted
               /\ UpStep("flow", "write")
               /\ UNCHANGED <<credentialsFile, clientSecrets, thumbnailPath,
                              chunks, videoId, credentialsFile0>>
            \/ UpRaises("flow_failed")
    /\ UNCHANGED besidesUploader

(* lines 50-51: the credentials are written to token.json *)
SaveCredentials ==
    /\ upc = "write"
    /\ credentialsFile' = credentials
    /\ UpStep("write_token", "build")
    /\ UNCHANGED <<besidesUploader, clientSecrets, credentials, thumbnailPath,
                   chunks, videoId, credentialsFile0>>

(* line 54: build('youtube', 'v3', credentials=credentials) *)
BuildService ==
    /\ upc = "build"
    /\ \/ /\ UpStep("build", "insert")
          /\ UNCHANGED <<credentialsFile, clientSecrets, credentials,
                         thumbnailPath, chunks, videoId, credentialsFile0>>
       \/ UpRaises("build_failed")
    /\ UNCHANGED besidesUploader

(* lines 64-83: the request body, MediaFileUpload and videos().insert *)
InsertRequest ==
    /\ upc = "insert"
    /\ \/ /\ UpStep("insert", "chunks")
          /\ UNCHANGED <<credentialsFile, clientSecrets, credentials,
                         thumbnailPath, chunks, videoId, credentialsFile0>>
       \/ UpRaises("insert_failed")
    /\ UNCHANGED besidesUploader

(* lines 85-91: one request.next_chunk() of the while loop; the response   *)
(* ends the loop and video_id = response.get('id')                         *)
NextChunk ==
    /\ upc = "chunks"
    /\ \/ /\ chunks < MaxChunks
          /\ chunks' = chunks + 1
          /\ UpStep("chunk", "chunks")
          /\ UNCHANGED <<credentialsFile, clientSecrets, credentials,
                         thumbnailPath, videoId, credentialsFile0>>
       \/ /\ videoId' \in UploadReturns
          /\ UpStep("response", "thumbnail")
          /\ UNCHANGED <<credentialsFile, clientSecrets, credentials,
                         thumbnailPath, chunks, credentialsFile0>>
       \/ UpRaises("chunk_failed")
    /\ UNCHANGED besidesUploader

(* lines 95-109: the thumbnail, and return video_id *)
SetThumbnail ==
    /\ upc = "thumbnail"
    /\ IF AttachesThumbnail(thumbnailPath)
       THEN \/ UpStep("thumbnail", "returned")
            \/ UpStep("thumbnail_failed",
                      IF ThumbnailHandler = "log" THEN "returned" ELSE "raised")
       ELSE UpStep("no_thumbnail", "returned")
    /\ UNCHANGED <<besidesUploader, credentialsFile, clientSecrets, credentials,
                   thumbnailPath, chunks, videoId, credentialsFile0>>

(* after a call, time passes and the access token of token.json reaches   *)
(* its expiry                                                              *)
TokenExpires ==
    /\ upc \in {"returned", "raised"}
    /\ credentialsFile # NoCredentials /\ credentialsFile.valid
    /\ credentialsFile' = Expired(credentialsFile)
    /\ credentialsFile0' = Expired(credentialsFile)
    /\ credentials' = NoCredentials
    /\ upc' = "idle"
    /\ chunks' = 0
    /\ videoId' = Null
    /\ upLog' = <<>>
    /\ UNCHANGED <<besidesUploader, clientSecrets, thumbnailPath>>

NextUpload ==
    \/ EnterUpload
    \/ RefreshToken
    \/ InteractiveLogin
    \/ SaveCredentials
    \/ BuildService
    \/ InsertRequest
    \/ NextChunk
    \/ SetThumbnail
    \/ TokenExpires

SpecUpload == InitUpload /\ [][NextUpload]_vars

-----------------------------------------------------------------------------
(* create_video, step by step *)

InitVideo ==
    /\ OrchestratorIdle
    /\ UploaderIdle
    /\ WrapperIdle
    /\ BuilderIdle
    /\ cvSlidePaths \in ListsOver(SlideFiles)
    /\ cvAudioPaths \in ListsOver(AudioFiles)
    /\ clips = <<>>
    /\ finalVideo = <<>>
    /\ outputFile = "none"
    /\ cvpc = "idle"
    /\ cvError = "none"

(* lines 374-376: the exception is printed and raised again *)
CvRaises(e) ==
    /\ cvpc' = "raised"
    /\ cvError' = e

(* lines 327-333: the call and its input check *)
EnterCreateVideo ==
    /\ cvpc = "idle"
    /\ IF CreateVideoRejects(cvSlidePaths, cvAudioPaths)
       THEN CvRaises("invalid_input")
       ELSE cvpc' = "clips" /\ cvError' = cvError
    /\ UNCHANGED <<besidesEncoder, cvSlidePaths, cvAudioPaths, clips, finalVideo,
                   outputFile>>

(* lines 335-345: one turn of the loop over zip(slide_paths, audio_paths) *)
MakeClip ==
    /\ cvpc = "clips"
    /\ Len(clips) < ZipLen(cvSlidePaths, cvAudioPaths)
    /\ LET i == Len(clips) + 1 IN
       \/ /\ clips' = Append(clips, Clip(cvSlidePaths[i], cvAudioPaths[i]))
          /\ UNCHANGED <<cvpc, cvError>>
       \/ /\ CvRaises("clip_failed")
          /\ UNCHANGED clips
    /\ UNCHANGED <<besidesEncoder, cvSlidePaths, cvAudioPaths, finalVideo,
                   outputFile>>

(* line 347: concatenate_videoclips(clips, method="compose") *)
Concatenate ==
    /\ cvpc = "clips"
    /\ Len(clips) = ZipLen(cvSlidePaths, cvAudioPaths)
    /\ \/ /\ finalVideo' = clips
          /\ cvpc' = "write"
          /\ UNCHANGED cvError
       \/ /\ CvRaises("concatenate_failed")
          /\ UNCHANGED finalVideo
    /\ UNCHANGED <<besidesEncoder, cvSlidePaths, cvAudioPaths, clips, outputFile>>

(* lines 349-372: the optional background music and write_videofile, which *)
(* may leave a partial file when it fails                                  *)
WriteVideo ==
    /\ cvpc = "write"
    /\ \/ /\ outputFile' = "written"
          /\ cvpc' = "returned"
          /\ UNCHANGED cvError
       \/ /\ CvRaises("write_failed")
          /\ outputFile' \in {"none", "partial"}
    /\ UNCHANGED <<besidesEncoder, cvSlidePaths, cvAudioPaths, clips, finalVideo>>

NextVideo ==
    \/ EnterCreateVideo
    \/ MakeClip
    \/ Concatenate
    \/ WriteVideo

SpecVideo == InitVideo /\ [][NextVideo]_vars

-----------------------------------------------------------------------------
(* The word wrap, step by step *)

InitWrap ==
    /\ OrchestratorIdle
    /\ UploaderIdle
    /\ EncoderIdle
    /\ BuilderIdle
    /\ wText \in StringsUpTo(MaxChars)
    /\ wKind \in {"title", "body"}
    /\ wWidth \in {LongWidth, ShortWidth}
    /\ words = <<>>
    /\ wordPos = 0
    /\ currentLine = <<>>
    /\ lines = <<>>
    /\ wpc = "idle"

(* lines 254-256 and 289-291: words, lines and current_line are set up *)
EnterWrap ==
    /\ wpc = "idle"
    /\ words' = Split(wText)
    /\ wordPos' = 1
    /\ currentLine' = <<>>
    /\ lines' = <<>>
    /\ wpc' = "loop"
    /\ UNCHANGED <<besidesWrapper, wText, wKind, wWidth>>

(* lines 257-264 and 292-298: one turn of the loop over words *)
WrapWord ==
    /\ wpc = "loop"
    /\ wordPos <= Len(words)
    /\ LET test_line == TestLine(currentLine, words[wordPos]) IN
       IF Fits(wKind, wWidth, test_line)
       THEN /\ currentLine' = test_line
            /\ lines' = lines
       ELSE /\ lines' = Append(lines, currentLine)
            /\ currentLine' = words[wordPos]
    /\ wordPos' = wordPos + 1
    /\ UNCHANGED <<besidesWrapper, wText, wKind, wWidth, words, wpc>>

(* lines 265 and 299: the last line is added after the loop *)
WrapEnd ==
    /\ wpc = "loop"
    /\ wordPos > Len(words)
    /\ lines' = Append(lines, currentLine)
    /\ wpc' = "done"
    /\ UNCHANGED <<besidesWrapper, wText, wKind, wWidth, words, wordPos,
                   currentLine>>

NextWrap ==
    \/ EnterWrap
    \/ WrapWord
    \/ WrapEnd

SpecWrap == InitWrap /\ [][NextWrap]_vars

-----------------------------------------------------------------------------
(* build_plan_from_videos as one step *)

InitPlan ==
    /\ OrchestratorIdle
    /\ UploaderIdle
    /\ EncoderIdle
    /\ WrapperIdle
    /\ videos \in VideoLists
    /\ targetCount \in TargetCounts
    /\ builtPlan = NoDoc
    /\ bpc = "idle"

(* lines 94-124: the call returns the plan *)
BuildPlan ==
    /\ bpc = "idle"
    /\ builtPlan' = BuildPlanFromVideos(videos, targetCount)
    /\ bpc' = "returned"
    /\ UNCHANGED <<besidesBuilder, videos, targetCount>>

NextPlan == BuildPlan

SpecPlan == InitPlan /\ [][NextPlan]_vars

-----------------------------------------------------------------------------
(* Properties *)

Done == pc = "done"

LessonOK(l) ==
    /\ l.status \in Statuses
    /\ (l.youtube_id # Null) <=> (l.status = "complete")

PlanOK(d) == \A i \in 1..Len(d.lessons) : LessonOK(d.lessons[i])

Ended(r) == { k \in 1..Len(outcomes) : outcomes[k].result = r }

(* C1, as stated: after a run the persisted plan has every lesson pending  *)
(* or complete, with a youtube_id exactly when complete, whichever plan    *)
(* the run loaded or generated.                                            *)
C1_AsClaimed ==
    (Done /\ disk.kind = "json" /\ HasLessons(disk.doc)) => PlanOK(disk.doc)

(* C1, as amended: a run preserves that invariant.  When the plan the run  *)
(* works on (the plan it loaded or the last one generate_curriculum        *)
(* returned) satisfies it, so does the plan persisted when the run ends.   *)
C1_InvariantPreserved ==
    (Done /\ HasLessons(plan0) /\ PlanOK(plan0)) =>
        (disk.kind = "json" /\ HasLessons(disk.doc) /\ PlanOK(disk.doc))

C1_Witness ==
    /\ Done
    /\ HasLessons(plan0) /\ PlanOK(plan0)
    /\ Ended("returned") # {}
    /\ disk.doc # plan0
    /\ PlanOK(disk.doc)

(* C2: when produce_lesson_videos returns video id v for the selected      *)
(* pending lesson L, the persisted plan is the plan the run worked on with *)
(* L complete and youtube_id v, and nothing else changed.                  *)
C2_OnlySelectedLessonMarked ==
    Done =>
        \A k \in Ended("returned") :
            /\ disk.kind = "json"
            /\ disk.doc = PlanDoc([plan0.lessons EXCEPT
                                     ![outcomes[k].idx].status = "complete",
                                     ![outcomes[k].idx].youtube_id = outcomes[k].vid])

(* C3: a step of a lesson's production raises.  The exception is handled   *)
(* at the lesson (not by main()'s outer handler), the lesson is as it was  *)
(* and pending, no other lesson changed, the plan is persisted, the loop   *)
(* attempts the rest of the batch and the run ends through cleanup.        *)
C3_FailureIsContained ==
    \A k \in Ended("raised") :
        /\ ~escaped
        /\ exitKind # "critical"
        /\ pc \in {"produce", "cleanup", "done"}
        /\ disk = JsonDump(plan)
        /\ plan.lessons[outcomes[k].idx] = plan0.lessons[outcomes[k].idx]
        /\ plan.lessons[outcomes[k].idx].status = "pending"
        /\ (plan0.lessons[outcomes[k].idx].youtube_id = Null
               => disk.doc.lessons[outcomes[k].idx].youtube_id = Null)
        /\ (Ended("returned") = {} => plan = plan0)
        /\ (Done => /\ Len(outcomes) = Len(batch)
                    /\ exitKind = "loop_end"
                    /\ wavs = {})

C3_Witness ==
    /\ Done
    /\ Ended("raised") # {}
    /\ outcomes[1].at = "audio"
    /\ disk.doc.lessons[outcomes[1].idx].status = "pending"

(* C4: whichever way a run ends, the plan file equals main()'s plan, its   *)
(* last attempted mutation included; a run that never obtained a plan      *)
(* leaves the file as it found it.                                         *)
C4_PlanPersisted ==
    Done => IF plan # NoDoc THEN disk = JsonDump(plan)
            ELSE FileKind(disk) = startKind

C4_Witness ==
    /\ Done
    /\ plan # NoDoc
    /\ plan # plan0
    /\ disk = JsonDump(plan)

(* the run found a usable plan with no pending lesson and called           *)
(* generate_curriculum at line 182                                         *)
ExhaustedRun ==
    startKind = "plan" /\ genLog # <<>> /\ genLog[1].site = "exhausted"

IsFullPendingPlan(d) ==
    /\ HasLessons(d)
    /\ Len(d.lessons) = 20
    /\ \A i \in 1..Len(d.lessons) :
          d.lessons[i].status = "pending" /\ d.lessons[i].youtube_id = Null

(* C5, as stated: a usable plan with no pending lesson is always replaced  *)
(* in the file by a new plan of exactly 20 lessons, all pending with       *)
(* youtube_id null (looked at before a lesson of the new plan is produced).*)
C5_AsClaimed ==
    (ExhaustedRun /\ log = <<>>) =>
        (disk.kind = "json" /\ IsFullPendingPlan(disk.doc) /\ disk.doc = plan)

(* C5, as amended: the orchestrator calls generate_curriculum; what the    *)
(* call returns is persisted as it is in place of the old plan (20 pending *)
(* lessons when the response is what the prompt asks for); when the call   *)
(* raises, the old plan stays in the file and the run ends as a critical   *)
(* error with no lesson produced.                                          *)
C5_RegeneratedAsReturned ==
    (ExhaustedRun /\ log = <<>>) =>
        /\ Len(genLog) = 1
        /\ disk = JsonDump(plan0)
        /\ plan = plan0
        /\ outcomes = <<>>
        /\ IF genLog[1].ok
           THEN plan0 = ObedientCurriculum => IsFullPendingPlan(disk.doc)
           ELSE /\ exitKind = "critical"
                /\ IsValidPlan(plan0)
                /\ \A i \in 1..Len(plan0.lessons) : plan0.lessons[i].status # "pending"

C5_Witness ==
    /\ ExhaustedRun
    /\ log = <<>>
    /\ genLog[1].ok
    /\ pc = "produce"
    /\ IsFullPendingPlan(disk.doc)

InvalidKinds ==
    {"garbage", "notmapping", "nolessons", "emptylessons", "lessonsnotlist"}

(* C6, as stated: an existing plan file that is malformed, not a mapping,  *)
(* without lessons, or with an empty or non-list lessons field is replaced *)
(* by a regenerated plan and the run continues, nothing being raised.      *)
C6_AsClaimed ==
    (startKind \in InvalidKinds /\ pc # "load") =>
        /\ genLog # <<>> /\ genLog[1].ok
        /\ plan # NoDoc
        /\ disk = JsonDump(plan)
        /\ exitKind # "critical" \/ Len(genLog) > 1 \/ ~HasLessons(plan)
        /\ ~escaped

(* C6, as amended: such a file is discarded and generate_curriculum is     *)
(* called; when it returns, the returned plan is written to the file and   *)
(* the run continues with it; when it raises, get_content_plan raises, the *)
(* handler of main() takes it as a critical error, the file stays as it    *)
(* was and no lesson is produced.  main() raises in neither case.          *)
C6_InvalidFileRegenerated ==
    (startKind \in InvalidKinds /\ pc # "load") =>
        /\ genLog # <<>> /\ genLog[1].site = "invalid"
        /\ ~escaped
        /\ IF genLog[1].ok
           THEN /\ plan # NoDoc
                /\ disk = JsonDump(plan)
                /\ (Len(genLog) = 1 /\ log = <<>>) => plan = plan0
           ELSE /\ plan = NoDoc
                /\ FileKind(disk) = startKind
                /\ exitKind = "critical"
                /\ Len(genLog) = 1
                /\ log = <<>>

C6_Witness ==
    /\ startKind = "garbage"
    /\ genLog # <<>> /\ genLog[1].ok
    /\ pc = "produce" /\ log = <<>>
    /\ disk = JsonDump(plan0)

(* the run found no plan file and generate_curriculum raised *)
NoFileAndGenerationFailed ==
    startKind = "absent" /\ genLog # <<>> /\ ~genLog[1].ok

(* C7, as stated: with no plan file, a failure of generate_curriculum      *)
(* leaves main() as an exception; no lesson is produced and no plan file   *)
(* is created.                                                             *)
C7_AsClaimed ==
    (Done /\ NoFileAndGenerationFailed) =>
        (escaped /\ log = <<>> /\ disk.kind = "absent")

(* C7, as amended: with no plan file, a failure of generate_curriculum     *)
(* ends the run without a lesson produced and without a plan file, but the *)
(* exception is caught by the handler of main()'s try block: main() goes   *)
(* on to the cleanup of the .wav files and returns normally.               *)
C7_CaughtByMain ==
    NoFileAndGenerationFailed =>
        /\ ~escaped
        /\ exitKind = "critical"
        /\ pc \in {"cleanup", "done"}
        /\ plan = NoDoc
        /\ log = <<>> /\ outcomes = <<>>
        /\ disk.kind = "absent"
        /\ Done => wavs = {}

C7_Witness ==
    /\ Done
    /\ NoFileAndGenerationFailed
    /\ disk = Absent
    /\ wavs = {}

RECURSIVE ProducedFrom(_, _)
ProducedFrom(l, k) ==
    IF k > Len(l) THEN <<>>
    ELSE IF l[k].op = "content" THEN <<l[k].idx>> \o ProducedFrom(l, k + 1)
    ELSE ProducedFrom(l, k + 1)

(* the lessons produce_lesson_videos was called for in this run, in order *)
Produced == ProducedFrom(log, 1)

PendingAtSelection ==
    IF HasLessons(plan0)
    THEN { i \in 1..Len(plan0.lessons) : plan0.lessons[i].status = "pending" }
    ELSE {}

(* C8: a run calls production for min(LESSONS_PER_RUN, number of pending   *)
(* lessons) lessons with LESSONS_PER_RUN = 1: the earliest pending ones in *)
(* plan order, never a complete one, none twice, also after a failure.     *)
C8_EarliestPendingOnce ==
    /\ \A k \in 1..Len(Produced) :
          /\ Produced[k] \in PendingAtSelection
          /\ \A j \in PendingAtSelection :
                j < Produced[k] => \E m \in 1..k : Produced[m] = j
          /\ \A m \in 1..Len(Produced) : m < k => Produced[m] < Produced[k]
    /\ Len(Produced) <= 1
    /\ Done => Len(Produced) = Min(1, Cardinality(PendingAtSelection))

C8_Witness ==
    /\ Done
    /\ Cardinality(PendingAtSelection) = 2
    /\ Produced = <<1>>
    /\ Ended("raised") # {}

(* C9: every run ends with no .wav file directly under the output          *)
(* directory, also the run whose regenerated plan has no pending lesson.   *)
C9_WavsDeletedAtEnd ==
    Done => wavs = {}

Rank(op) ==
    CASE op = "content" -> 1
      [] op = "audio" -> 2
      [] op = "slides" -> 3
      [] op = "encode_long" -> 4
      [] op = "thumb_long" -> 5
      [] op = "audio_short" -> 6
      [] op = "slide_short" -> 7
      [] op = "encode_short" -> 8
      [] op = "thumb_short" -> 9
      [] op = "upload_long" -> 10
      [] op = "sleep" -> 11
      [] op = "upload_short" -> 12
      [] OTHER -> 0

Looping == {"audio", "slides"}

C10_WitnessNoId ==
    /\ Done
    /\ Ended("noid") # {}
    /\ log[Len(log)].op = "upload_long"

-----------------------------------------------------------------------------
(* The plan as a frame around its lessons' status and youtube_id *)

SameSkeleton(a, b) ==
    /\ HasLessons(a) /\ HasLessons(b)
    /\ Len(a.lessons) = Len(b.lessons)
    /\ \A i \in 1..Len(a.lessons) :
          /\ a.lessons[i].chapter = b.lessons[i].chapter
          /\ a.lessons[i].part = b.lessons[i].part
          /\ a.lessons[i].title = b.lessons[i].title

ChangedLessons(a, b) == { i \in 1..Len(a.lessons) : a.lessons[i] # b.lessons[i] }

(* C16: generate_curriculum is called only by get_content_plan on an       *)
(* absent or invalid file, or by main() holding an untouched plan none of  *)
(* whose lessons is pending.  A run that loaded a valid plan and has not   *)
(* generated keeps the number, order, chapter, part and title of the       *)
(* lessons, in memory and in the file; only status and youtube_id differ   *)
(* from the loaded plan, in at most LESSONS_PER_RUN lessons.               *)
C16_PlanFrame ==
    /\ [](pc = "regen" =>
            /\ plan = plan0 /\ log = <<>> /\ outcomes = <<>>
            /\ HasLessons(plan) /\ Pending(plan) = <<>>)
    /\ []((startKind = "plan" /\ genLog # <<>>) =>
            genLog[1].site = "exhausted")
    /\ []((startKind = "plan" /\ plan0 # NoDoc /\ genLog = <<>>) =>
            /\ disk.kind = "json"
            /\ SameSkeleton(plan0, plan) /\ SameSkeleton(plan0, disk.doc)
            /\ Cardinality(ChangedLessons(plan0, plan)) <= LESSONS_PER_RUN
            /\ Cardinality(ChangedLessons(plan0, disk.doc)) <= LESSONS_PER_RUN
            /\ \A i \in ChangedLessons(plan0, disk.doc) :
                  \/ plan0.lessons[i].status # disk.doc.lessons[i].status
                  \/ plan0.lessons[i].youtube_id # disk.doc.lessons[i].youtube_id)
    /\ [][Len(genLog') > Len(genLog) =>
            \/ pc = "load" /\ (disk.kind = "absent" \/ ~IsValidPlan(JsonLoad(disk)))
            \/ pc = "regen"]_vars

C16_Witness ==
    /\ Done
    /\ startKind = "plan" /\ genLog = <<>>
    /\ Ended("returned") # {}
    /\ Cardinality(ChangedLessons(plan0, disk.doc)) = 1
    /\ SameSkeleton(plan0, disk.doc)

(* every production and upload of the run succeeded *)
AllSucceeded ==
    /\ outcomes # <<>>
    /\ \A k \in 1..Len(outcomes) : outcomes[k].result = "returned"

(* C17: a run that starts from a valid plan with k >= 1 pending lessons    *)
(* and whose production and uploads succeed leaves k - 1 pending lessons,  *)
(* the lesson it marked complete being the lesson it produced, so that k   *)
(* such runs complete the plan.                                            *)
C17_OnePendingLessPerRun ==
    (Done /\ startKind = "plan" /\ genLog = <<>> /\ AllSucceeded) =>
        /\ disk.kind = "json"
        /\ Len(Pending(disk.doc)) = Len(Pending(plan0)) - 1
        /\ \A k \in 1..Len(outcomes) :
              /\ disk.doc.lessons[outcomes[k].idx].status = "complete"
              /\ disk.doc.lessons[outcomes[k].idx].youtube_id = outcomes[k].vid

(* the lessons whose long-form upload returned a video id in this run:     *)
(* line 147 is reached only through `if long_video_id:`                    *)
LongUploaded == { log[m].idx : m \in { n \in 1..Len(log) : log[n].op = "sleep" } }

(* C18: once the long-form upload of a lesson has returned a video id, the *)
(* plan file records that lesson complete when the run ends, so that no    *)
(* later run selects it and uploads its long-form video a second time.     *)
C18_UploadedLessonRecorded ==
    Done => \A i \in LongUploaded :
                /\ disk.kind = "json"
                /\ disk.doc.lessons[i].status = "complete"

(* the create_video calls of the run that raised the invalid-input error *)
RejectedEncodes ==
    { m \in 1..Len(log) : /\ log[m].op \in {"encode_long", "encode_short"}
                          /\ log[m].arg = InvalidInput }

(* C20: for lesson content with n >= 0 long-form slides, create_video is   *)
(* called for the long video with n + 2 slide images and n + 2 audio       *)
(* files, the i-th image being the i-th of intro, slides, outro and the    *)
(* i-th audio the narration of the same position, and for the short with  *)
(* one image and one audio; the invalid-input error of create_video is     *)
(* never raised by a call of the orchestrator.                             *)
C20_PairedLists ==
    /\ (pc = "produce" /\ Rank(step) >= Rank("encode_long")) =>
          /\ Len(slidePaths) = nSlides + 2
          /\ Len(audioPaths) = nSlides + 2
          /\ \A i \in 1..Len(slidePaths) :
                slidePaths[i] = i /\ audioPaths[i] = AudioSlideWav(i)
          /\ ~CreateVideoRejects(slidePaths, audioPaths)
    /\ Len(ShortSlidePaths) = 1 /\ Len(ShortAudioPaths) = 1
    /\ RejectedEncodes = {}

C20_Witness ==
    /\ pc = "produce" /\ step = "thumb_short"
    /\ nSlides = 1
    /\ Len(slidePaths) = 3 /\ Len(audioPaths) = 3
    /\ \E m \in 1..Len(log) : log[m].op = "encode_short"

C20_WitnessNoSlides ==
    /\ pc = "produce" /\ step = "thumb_long"
    /\ nSlides = 0
    /\ Len(slidePaths) = 2 /\ Len(audioPaths) = 2

(* C19: a run that found a plan document in the file leaves a complete     *)
(* plan document there at every moment, interrupted or not, so that the    *)
(* next run loads a plan and no recorded completion is lost.               *)
C19_FileAlwaysComplete ==
    startKind = "plan" =>
        /\ disk.kind = "json"
        /\ genLog = <<>> =>
              /\ IsValidPlan(JsonLoad(disk))
              /\ \A i \in 1..Len(plan0.lessons) :
                    plan0.lessons[i].status = "complete" =>
                        disk.doc.lessons[i].status = "complete"

-----------------------------------------------------------------------------
(* Properties of uploader.py *)

Has(e) == \E k \in 1..Len(upLog) : upLog[k] = e

InCall == upc # "idle"

(* the token states of a credentials file *)
TokenValid(c) == c.id # "none" /\ c.valid

TokenRefreshable(c) == c.id # "none" /\ ~c.valid /\ c.expired /\ c.refresh_token

NeedsInteractive(c) == ~TokenValid(c) /\ ~TokenRefreshable(c)

(* get_authenticated_service returned: line 54 went through *)
AuthReturned == Has("build")

AuthFailures == {"refresh_failed", "flow_failed", "no_client_secrets"}

(* C11: with token.json as the call found it: a valid token is used as it  *)
(* is and the file stays the same; an expired token with a refresh token   *)
(* is refreshed and the interactive flow is not run; in every other state  *)
(* (no file, or a token neither valid nor expired with a refresh token)    *)
(* the interactive flow is what runs, unless client_secrets.json is        *)
(* missing, which raises before the flow starts.  When the function has    *)
(* returned, the credentials are valid and token.json holds them; a failed *)
(* refresh or flow raises and leaves token.json as it was.                 *)
C11_TokenStateMachine ==
    /\ (InCall /\ TokenValid(credentialsFile0)) =>
          /\ credentialsFile = credentialsFile0
          /\ credentials = credentialsFile0
          /\ \A e \in {"refresh", "flow", "write_token"} \cup AuthFailures : ~Has(e)
    /\ (InCall /\ TokenRefreshable(credentialsFile0)) =>
          /\ \A e \in {"flow", "flow_failed", "no_client_secrets"} : ~Has(e)
          /\ upc = "refresh" \/ Has("refresh") \/ Has("refresh_failed")
    /\ (InCall /\ NeedsInteractive(credentialsFile0)) =>
          /\ \A e \in {"refresh", "refresh_failed"} : ~Has(e)
          /\ upc = "login" \/ Has("flow") \/ Has("flow_failed") \/ Has("no_client_secrets")
          /\ ~clientSecrets =>
                /\ ~Has("flow") /\ ~Has("flow_failed")
                /\ upc = "login" \/ (upc = "raised" /\ upLog = <<"no_client_secrets">>)
    /\ AuthReturned =>
          /\ TokenValid(credentials)
          /\ credentialsFile = credentials
    /\ (\E e \in AuthFailures : Has(e)) =>
          /\ upc = "raised"
          /\ credentialsFile = credentialsFile0
          /\ ~Has("write_token")

C11_Witness ==
    /\ upc = "returned"
    /\ TokenRefreshable(credentialsFile0)
    /\ Has("refresh")
    /\ credentialsFile = Refreshed(credentialsFile0)
    /\ TokenValid(credentialsFile)

C11_WitnessLogin ==
    /\ upc = "returned"
    /\ credentialsFile0 = NoCredentials
    /\ Has("flow")
    /\ credentialsFile \in Granted

UploadFailures ==
    AuthFailures \cup {"build_failed", "insert_failed", "chunk_failed"}

ThumbnailCalls == {"thumbnail", "thumbnail_failed"}

(* C12: the thumbnail upload is called only right after the video upload's *)
(* final response and only for a thumbnail path that was given and names a *)
(* file; when it fails the call still returns the video id; when the       *)
(* authentication or the video upload fails the call raises and no         *)
(* thumbnail upload was made.                                              *)
C12_ThumbnailBestEffort ==
    /\ \A k \in 1..Len(upLog) :
          upLog[k] \in ThumbnailCalls =>
              /\ thumbnailPath = "present"
              /\ k > 1 /\ upLog[k - 1] = "response"
    /\ Has("thumbnail_failed") => upc = "returned"
    /\ (\E e \in UploadFailures : Has(e)) =>
          /\ upc = "raised"
          /\ \A e \in ThumbnailCalls : ~Has(e)
    /\ upc = "raised" => upLog[Len(upLog)] \in UploadFailures
    /\ upc = "returned" =>
          /\ Has("response")
          /\ videoId \in UploadReturns

C12_Witness ==
    /\ upc = "returned"
    /\ Has("thumbnail_failed")
    /\ videoId = UploadedId

C12_WitnessNoThumbnail ==
    /\ upc = "raised"
    /\ Has("chunk_failed")
    /\ thumbnailPath = "present"

-----------------------------------------------------------------------------
(* Properties of create_video *)

(* the argument lists the claim calls invalid *)
InvalidLists ==
    \/ Len(cvSlidePaths) = 0
    \/ Len(cvAudioPaths) = 0
    \/ Len(cvSlidePaths) # Len(cvAudioPaths)

(* C13: with an empty slide list, an empty audio list or lists of          *)
(* different lengths create_video raises the invalid-input error before a  *)
(* clip is built and no output file appears; with non-empty lists of equal *)
(* length the clips are built one per (slide, audio) pair, in list order,  *)
(* and the video that is written is their concatenation in that order.     *)
C13_CreateVideoInput ==
    /\ (cvpc # "idle" /\ InvalidLists) =>
          /\ cvpc = "raised" /\ cvError = "invalid_input"
          /\ clips = <<>> /\ finalVideo = <<>>
          /\ outputFile = "none"
    /\ ~InvalidLists =>
          /\ cvError # "invalid_input"
          /\ Len(clips) <= Len(cvSlidePaths)
          /\ \A i \in 1..Len(clips) :
                clips[i] = Clip(cvSlidePaths[i], cvAudioPaths[i])
          /\ cvpc \in {"write", "returned"} =>
                /\ Len(clips) = Len(cvSlidePaths)
                /\ finalVideo = clips
          /\ outputFile = "written" <=> cvpc = "returned"

C13_Witness ==
    /\ cvpc = "returned"
    /\ outputFile = "written"
    /\ Len(cvSlidePaths) = 3
    /\ cvSlidePaths[1] # cvSlidePaths[2]
    /\ Len(finalVideo) = 3

C13_WitnessRejected ==
    /\ cvpc = "raised" /\ cvError = "invalid_input"
    /\ Len(cvSlidePaths) = 3 /\ Len(cvAudioPaths) = 2
    /\ outputFile = "none"

-----------------------------------------------------------------------------
(* Properties of the word wrap *)

RECURSIVE JoinWithSpaces(_)
JoinWithSpaces(ls) ==
    IF ls = <<>> THEN <<>>
    ELSE IF Len(ls) = 1 THEN ls[1]
    ELSE ls[1] \o <<" ">> \o JoinWithSpaces(Tail(ls))

(* the part of the canvas width a line of this wrap may take, in percent *)
FractionOf(kind) == IF kind = "title" THEN 90 ELSE 85

(* the width of a line as drawn *)
Extent(t) == TextBBox(t).right - TextBBox(t).left

(* C14: the lines of a finished wrap, joined with spaces, have the word    *)
(* sequence of the input string, no word dropped, doubled or moved; every  *)
(* line of more than one word is at most as wide as the fraction of the    *)
(* canvas width (0.9 for the title, 0.85 for the body), and a wider line   *)
(* is a single word.                                                       *)
C14_WrapKeepsWords ==
    wpc = "done" =>
        /\ Split(JoinWithSpaces(lines)) = Split(wText)
        /\ \A k \in 1..Len(lines) :
              \/ Extent(lines[k]) * 100 <= wWidth * FractionOf(wKind)
              \/ Len(Split(lines[k])) = 1

C14_Witness ==
    /\ wpc = "done"
    /\ Len(Split(wText)) = 3
    /\ Len(lines) = 2
    /\ \E k \in 1..Len(lines) : Len(Split(lines[k])) = 2

C14_WitnessLongWord ==
    /\ wpc = "done"
    /\ \E k \in 1..Len(lines) :
          /\ Extent(lines[k]) * 100 > wWidth * FractionOf(wKind)
          /\ Len(Split(lines[k])) = 1
    /\ lines[1] = <<>>
    /\ Len(Split(wText)) = 2

-----------------------------------------------------------------------------
(* Properties of build_plan_from_videos *)

(* every lesson of the returned plan is as the function builds it: chapter *)
(* idx // 2 + 1, part idx % 2 + 1, the title of videos[idx] when there is  *)
(* one and it is not empty, "Lesson idx+1" otherwise, pending, no id       *)
LessonsAsBuilt ==
    \A idx \in 0..(Len(builtPlan.lessons) - 1) :
        LET l == builtPlan.lessons[idx + 1] IN
        /\ l.chapter = (idx \div 2) + 1
        /\ l.part = (idx % 2) + 1
        /\ l.title = IF /\ idx < Len(videos)
                        /\ videos[idx + 1].title # NoTitle
                        /\ videos[idx + 1].title # <<>>
                     THEN videos[idx + 1].title
                     ELSE <<"L", "e", "s", "s", "o", "n", " ", DigitChar(idx + 1)>>
        /\ l.status = "pending"
        /\ l.youtube_id = Null

C15_WitnessNegative ==
    /\ bpc = "returned"
    /\ targetCount = Target(FALSE, -1)
    /\ Len(videos) = 2
    /\ builtPlan.lessons = <<>>

====
